---- MODULE Spec2Model ----
(***************************************************************************)
(* Message store of keeply-web-bot-back: the JSON document messages.json,  *)
(* the per-message directories under uploads/, and the route handlers that *)
(* submit, delete, clear, list and locate messages.                        *)
(*                                                                         *)
(* Nine specifications are defined:                                        *)
(*   Spec         the mutating handlers (submit, delete, clear) with the   *)
(*                filesystem outcomes they can meet;                       *)
(*   SpecQuery    the read-only handlers (list, position) applied to every *)
(*                bounded document the store can hold;                     *)
(*   SpecUpload   submits through the upload validation middleware, with   *)
(*                files of every kind a client can send, then delete/clear;*)
(*   SpecNoFail   the same requests when no filesystem call fails;         *)
(*   SpecFetch    fetches of single files from a store with one message;   *)
(*   SpecDownload the attachments download, step by step between its       *)
(*                awaits and the archiver's entries, with delete and clear;*)
(*   SpecRace     the same with delete and clear only while the download   *)
(*                handler is suspended;                                    *)
(*   SpecWriters  add calls of writers that no event loop orders;          *)
(*   SpecLoop     submits waiting in the middleware of one process while   *)
(*                other requests are handled.                              *)
(***************************************************************************)
EXTENDS Integers, Sequences, FiniteSets, TLC

\* ------------------------------------------------------------------ bounds
MaxIds == 3        \* UUIDs that uuidv4() hands out in one run
MaxMsgs == 3       \* messages kept in messages.json
MaxClock == 1      \* distinct wall-clock readings while messages are submitted
MaxTime == 2       \* distinct timestamps in a document that is queried
MaxFiles == 1      \* files in one upload
MaxUpload == 2     \* files in one request that passes through the upload middleware
MaxPosts == 1      \* such requests that reach the route handler in one run
MaxParam == 4      \* largest offset / limit a client sends
MaxAttach == 2     \* attachments of the message whose files are served
MaxCalls == 2      \* add calls in flight at the same time

\* ------------------------------------------------------- program constants
UuidLen == 36      \* /^[a-f0-9\-]{36}$/
DefaultLimit == 10 \* parseInt(ctx.query.limit) || 10
DefaultOffset == 0 \* parseInt(ctx.query.offset) || 0

\* ------------------------------------------------------------- identifiers
\* An id string is represented by its length, the classes of the characters
\* it contains and a number n that tells strings of the same shape apart.
UuidChars == {"hex", "dash"}

Uuid(k) == [n |-> k, len |-> UuidLen, chars |-> UuidChars]

Uuids == {Uuid(k) : k \in 1..MaxIds}

\* "../../etc": nine characters, dots and slashes
TraversalId == [n |-> 0, len |-> 9, chars |-> {"dot", "slash", "hex"}]

\* a UUID typed in upper case: 36 characters, but outside [a-f0-9\-]
UpperId == [n |-> 0, len |-> UuidLen, chars |-> {"upper", "dash", "hex"}]

RequestIds == Uuids \cup {TraversalId, UpperId}

\* /^[a-f0-9\-]{36}$/.test(id)
ValidMessageId(id) == id.len = UuidLen /\ id.chars \subseteq UuidChars

\* --------------------------------------------------------------- file types
Mime(t, s) == [type |-> t, subtype |-> s]

\* no MIME type: undefined / null
NoMime == Mime("", "")

FILE_TYPE_CONFIG ==
  << [prefix |-> "image", subdir |-> "images",
      specificTypes |-> <<Mime("image", "jpeg"), Mime("image", "png"),
                          Mime("image", "gif"), Mime("image", "webp")>>],
     [prefix |-> "video", subdir |-> "videos",
      specificTypes |-> <<Mime("video", "mp4")>>],
     [prefix |-> "audio", subdir |-> "audios",
      specificTypes |-> <<Mime("audio", "mpeg"), Mime("audio", "wav")>>] >>

\* FILE_TYPE_CONFIG.flatMap(c => c.specificTypes), as a set
ALLOWED_FILE_TYPES ==
  UNION {{FILE_TYPE_CONFIG[i].specificTypes[j] : j \in 1..Len(FILE_TYPE_CONFIG[i].specificTypes)} :
           i \in 1..Len(FILE_TYPE_CONFIG)}

MIME_TO_EXT ==
  << [mime |-> Mime("image", "jpeg"), ext |-> ".jpg"],
     [mime |-> Mime("image", "png"), ext |-> ".png"],
     [mime |-> Mime("image", "gif"), ext |-> ".gif"],
     [mime |-> Mime("image", "webp"), ext |-> ".webp"],
     [mime |-> Mime("video", "mp4"), ext |-> ".mp4"],
     [mime |-> Mime("audio", "mpeg"), ext |-> ".mp3"],
     [mime |-> Mime("audio", "wav"), ext |-> ".wav"] >>

\* getExtensionFromMime that knows no type
getExtensionFromMime_bin(mime) == ".bin"

\* getExtensionFromMime: the mapped extension, ".bin" for anything else
getExtensionFromMime(mime) ==
  LET hits == {i \in 1..Len(MIME_TO_EXT) : MIME_TO_EXT[i].mime = mime}
  IN IF mime = NoMime \/ hits = {} THEN ".bin"
     ELSE MIME_TO_EXT[CHOOSE i \in hits : TRUE].ext

\* MIME_PREFIXES.find(prefix => mimeType.startsWith(prefix)), null as "none"
getSubdirByRealMimetype(mime) ==
  IF mime = NoMime THEN "none" ELSE
  LET hits == {i \in 1..Len(FILE_TYPE_CONFIG) : FILE_TYPE_CONFIG[i].prefix = mime.type}
  IN IF hits = {} THEN "none"
     ELSE FILE_TYPE_CONFIG[CHOOSE i \in hits : \A j \in hits : i <= j].subdir

UploadTypes == {Mime("image", "png"), Mime("video", "mp4")}

RECURSIVE SeqsUpTo(_, _)
SeqsUpTo(S, n) ==
  IF n = 0 THEN {<<>>}
  ELSE LET shorter == SeqsUpTo(S, n - 1)
       IN shorter \cup {Append(s, x) : s \in {t \in shorter : Len(t) = n - 1}, x \in S}

\* One file of a multipart request as the body parser delivers it: filepath
\* is the number of its temporary file in the upload directory (0 when the
\* record has no filepath), mimetype the type the client declared, content
\* the type its leading bytes show (NoMime when they show none), readable
\* whether the file can be read, realMimetype what validation attached.
UploadFile(path, declared, content, readable) ==
  [filepath |-> path, mimetype |-> declared, content |-> content,
   readable |-> readable, realMimetype |-> NoMime]

\* the k-th file of a request, already validated as being of type t
ValidatedFile(k, t) == [UploadFile(k, t, t, TRUE) EXCEPT !.realMimetype = t]

RECURSIVE ValidatedUploads(_)
ValidatedUploads(n) ==
  IF n = 0 THEN {<<>>}
  ELSE ValidatedUploads(n - 1)
         \cup {Append(s, ValidatedFile(n, t)) :
                 s \in {u \in ValidatedUploads(n - 1) : Len(u) = n - 1}, t \in UploadTypes}

Uploads == ValidatedUploads(MaxFiles)

Texts == {"", "hi"}

ClockTimes == 1..MaxClock

Times == 1..MaxTime

VARIABLES
  messagesFile,   \* messages.json: [exists, ok |-> parseable, data |-> the array]
  uploadDirs,     \* ids k such that the directory uploads/{k} exists
  storedFiles,    \* files under uploads/{k}: [path |-> relative path, bytes |-> content]
  uuidCount,      \* how many UUIDs uuidv4() has returned; the k-th is Uuid(k)
  response,       \* what the last handler did and answered
  download,       \* the attachments download in flight and what it has answered
  inflight        \* the add calls in flight, each at its position

vars == <<messagesFile, uploadDirs, storedFiles, uuidCount, response, download, inflight>>

\* the state of the handlers that are suspended at an await
suspended == <<download, inflight>>


\* a query parameter that the request does not carry
AbsentParam == [kind |-> "absent", value |-> 0]

\* the absent id (null / no id in the request)
NoId == [n |-> 0, len |-> 0, chars |-> {}]

\* The record of a handled request: the handler (op), the id it was about,
\* the HTTP status, the service function's result, whether writeMessages was
\* called and with what outcome, the directories whose removal was logged
\* as failed (rmFailed) or as done (dirsRemoved), the query parameters and
\* the data or position of the body; for a fetch the URL parameters (url),
\* the paths handed to the filesystem (accessed) and the Content-Type; for a
\* submit what its readMessages found at messages.json (document).
\* no error text in a response body
NoError == [text |-> "", mime |-> NoMime]

\* A file name as a URL segment: the part before its last dot (stem, an id
\* string) and path.extname of it (ext: the last dot and what follows it, ""
\* when the name has no dot).  NoUrl: the request had no such parameters.
FileName(stem, ext) == [stem |-> stem, ext |-> ext]

NoUrl == [messageId |-> NoId, subdir |-> "", filename |-> FileName(NoId, "")]

\* The download handler between its awaits, and the archive it pipes into
\* the response: pc is its position, files the attachment records it read, k
\* the file whose existence it awaits, found what that check saw, passed the
\* pre-checks it has passed in order; status and body what it has set,
\* headersSent whether bytes have gone out, queue the entry names handed to
\* archive.file, j the entry the archiver works on, written the entries in
\* the output, faults what the archiver met, ended how the response ended.
NoDownload ==
  [pc |-> "idle", id |-> NoId, files |-> <<>>, k |-> 0, found |-> FALSE,
   passed |-> <<>>, status |-> 0, body |-> "none", headersSent |-> FALSE,
   queue |-> <<>>, j |-> 0, written |-> <<>>, faults |-> {}, ended |-> "no"]

Calls == 1..MaxCalls

\* An add call in flight: its position (pc), the text and files of its
\* request, the message it adds (a sequence of at most one) and the array
\* its readMessages returned.
NoCall ==
  [pc |-> "idle", text |-> "", files |-> <<>>, message |-> <<>>, read |-> <<>>]

NoResponse ==
  [op |-> "init", id |-> NoId, status |-> 0, result |-> "none", wrote |-> FALSE,
   rmFailed |-> {}, dirsRemoved |-> {}, write |-> "ok", offset |-> AbsentParam, limit |-> AbsentParam,
   data |-> <<>>, position |-> -1,
   routed |-> FALSE, error |-> NoError, examined |-> <<>>, tmpLeft |-> {},
   unlinkFailed |-> FALSE, organize |-> [kind |-> "ok", at |-> 0],
   organizeThrew |-> FALSE, failedAt |-> 0, relocated |-> {},
   url |-> NoUrl, accessed |-> {}, contentType |-> NoMime, document |-> "none"]

\* --------------------------------------------------------- messages.json
\* Outcomes of fs.writeFileSync: it succeeds, it throws when opening the file
\* (content untouched), or it throws after the file was truncated (content
\* no longer parseable).
WriteOutcomes == {"ok", "eopen", "ewrite"}

\* messages.json holding the array, absent, and with content that JSON.parse
\* rejects
Document(messages) == [exists |-> TRUE, ok |-> TRUE, data |-> messages]

NoDocument == [exists |-> FALSE, ok |-> FALSE, data |-> <<>>]

CorruptDocument == [exists |-> TRUE, ok |-> FALSE, data |-> <<>>]

\* readMessages: any read or parse error yields the empty array
readMessages(file) == IF file.exists /\ file.ok THEN file.data ELSE <<>>

\* writeMessages that adds to the content it finds: content that does not
\* parse stays unparseable
writeMessages_appending(file, messages, w) ==
  CASE w = "ok"     -> [file |-> IF file.exists /\ ~file.ok THEN CorruptDocument
                                 ELSE Document(messages),
                        threw |-> FALSE]
    [] w = "eopen"  -> [file |-> file, threw |-> TRUE]
    [] w = "ewrite" -> [file |-> CorruptDocument, threw |-> TRUE]

\* writeMessages: the file after the call and whether the call threw
writeMessages(file, messages, w) ==
  CASE w = "ok"     -> [file |-> Document(messages), threw |-> FALSE]
    [] w = "eopen"  -> [file |-> file, threw |-> TRUE]
    [] w = "ewrite" -> [file |-> CorruptDocument, threw |-> TRUE]

\* what readFileSync and JSON.parse meet at messages.json
documentState(file) ==
  CASE ~file.exists -> "missing"
    [] ~file.ok     -> "corrupt"
    [] OTHER        -> "parsed"

\* addMessage with unshift in place of push
addMessage_prepend(file, newMessage, w) ==
  LET messages == <<newMessage>> \o readMessages(file)
      written == writeMessages(file, messages, w)
  IN [file |-> written.file, threw |-> written.threw, messages |-> messages]

\* addMessage that starts from an empty array instead of the document
addMessage_overwrites(file, newMessage, w) ==
  LET messages == <<newMessage>>
      written == writeMessages(file, messages, w)
  IN [file |-> written.file, threw |-> written.threw, messages |-> messages]

\* addMessage: read, push, write; returns the updated array
addMessage(file, newMessage, w) ==
  LET messages == Append(readMessages(file), newMessage)
      written == writeMessages(file, messages, w)
  IN [file |-> written.file, threw |-> written.threw, messages |-> messages]

\* messages.findIndex(msg => msg.id === id), -1 as 0
findIndex(messages, id) ==
  LET hits == {i \in 1..Len(messages) : messages[i].id = id}
  IN IF hits = {} THEN 0 ELSE CHOOSE i \in hits : \A j \in hits : i <= j

\* messages.splice(index): everything from index on is removed
splice_fromIndex(messages, index) == SubSeq(messages, 1, index - 1)

\* messages.splice(index, 1)
splice(messages, index) ==
  [i \in 1..(Len(messages) - 1) |-> IF i < index THEN messages[i] ELSE messages[i + 1]]

\* deleteMessageUploads that never removes anything
deleteMessageUploads_keep(dirs, messageId, rmFails) == dirs

\* deleteMessageUploads: nothing when the directory is absent; otherwise
\* rmSync, whose failure is caught and leaves the directory in place
deleteMessageUploads(dirs, messageId, rmFails) ==
  IF messageId \notin dirs THEN dirs
  ELSE IF rmFails THEN dirs
  ELSE dirs \ {messageId}

\* deleteMessage that removes uploads/{id} before it looks the id up
deleteMessage_rmFirst(file, dirs, id, rmFails, w) ==
  LET messages == readMessages(file)
      index == findIndex(messages, id)
      dirs2 == deleteMessageUploads(dirs, id, rmFails)
  IN IF index = 0
     THEN [file |-> file, dirs |-> dirs2, result |-> "false", wrote |-> FALSE]
     ELSE LET written == writeMessages(file, splice(messages, index), w)
          IN [file |-> written.file, dirs |-> dirs2,
              result |-> IF written.threw THEN "throw" ELSE "true",
              wrote |-> TRUE]

\* deleteMessage that gives up when the directory could not be removed
deleteMessage_abortOnRmFail(file, dirs, id, rmFails, w) ==
  LET messages == readMessages(file)
      index == findIndex(messages, id)
  IN IF index = 0
     THEN [file |-> file, dirs |-> dirs, result |-> "false", wrote |-> FALSE]
     ELSE IF Len(messages[index].files) > 0 /\ id \in dirs /\ rmFails
     THEN [file |-> file, dirs |-> dirs, result |-> "false", wrote |-> FALSE]
     ELSE LET dirs2 == IF Len(messages[index].files) > 0
                       THEN deleteMessageUploads(dirs, id, rmFails)
                       ELSE dirs
              written == writeMessages(file, splice(messages, index), w)
          IN [file |-> written.file, dirs |-> dirs2,
              result |-> IF written.threw THEN "throw" ELSE "true",
              wrote |-> TRUE]

\* deleteMessage that writes the array back without the splice
deleteMessage_noSplice(file, dirs, id, rmFails, w) ==
  LET messages == readMessages(file)
      index == findIndex(messages, id)
  IN IF index = 0
     THEN [file |-> file, dirs |-> dirs, result |-> "false", wrote |-> FALSE]
     ELSE LET dirs2 == IF Len(messages[index].files) > 0
                       THEN deleteMessageUploads(dirs, id, rmFails)
                       ELSE dirs
              written == writeMessages(file, messages, w)
          IN [file |-> written.file, dirs |-> dirs2,
              result |-> IF written.threw THEN "throw" ELSE "true",
              wrote |-> TRUE]

\* deleteMessage: result is "true", "false", or "throw" when the write throws
deleteMessage(file, dirs, id, rmFails, w) ==
  LET messages == readMessages(file)
      index == findIndex(messages, id)
  IN IF index = 0
     THEN [file |-> file, dirs |-> dirs, result |-> "false", wrote |-> FALSE]
     ELSE LET dirs2 == IF Len(messages[index].files) > 0
                       THEN deleteMessageUploads(dirs, id, rmFails)
                       ELSE dirs
              written == writeMessages(file, splice(messages, index), w)
          IN [file |-> written.file, dirs |-> dirs2,
              result |-> IF written.threw THEN "throw" ELSE "true",
              wrote |-> TRUE]

\* the loop of clearAllMessages left at the first removal that fails
clearUploads_stopOnFail(messages, i, dirs, rmFailSet) ==
  LET failing == {j \in i..Len(messages) :
                    /\ Len(messages[j].files) > 0
                    /\ messages[j].id \in dirs
                    /\ messages[j].id \in rmFailSet}
      stop == IF failing = {} THEN Len(messages) + 1
              ELSE CHOOSE j \in failing : \A k \in failing : j <= k
  IN dirs \ {messages[j].id : j \in {k \in i..Len(messages) :
                                       k < stop /\ Len(messages[k].files) > 0}}

\* the for-of loop of clearAllMessages over messages[i..]
RECURSIVE clearUploads(_, _, _, _)
clearUploads(messages, i, dirs, rmFailSet) ==
  IF i > Len(messages) THEN dirs
  ELSE clearUploads(messages, i + 1,
         IF Len(messages[i].files) > 0
         THEN deleteMessageUploads(dirs, messages[i].id, messages[i].id \in rmFailSet)
         ELSE dirs,
         rmFailSet)

\* clearAllMessages that writes the array it read instead of the empty one
clearAllMessages_keepsDoc(file, dirs, rmFailSet, w) ==
  LET messages == readMessages(file)
      dirs2 == clearUploads(messages, 1, dirs, rmFailSet)
      written == writeMessages(file, messages, w)
  IN [file |-> written.file, dirs |-> dirs2,
      result |-> IF written.threw THEN "false" ELSE "true"]

\* clearAllMessages: every exception is caught and turned into false
clearAllMessages(file, dirs, rmFailSet, w) ==
  LET messages == readMessages(file)
      dirs2 == clearUploads(messages, 1, dirs, rmFailSet)
      written == writeMessages(file, <<>>, w)
  IN [file |-> written.file, dirs |-> dirs2,
      result |-> IF written.threw THEN "false" ELSE "true"]

\* ----------------------------------------------------- uploaded files
\* file.realMimetype || file.mimetype
realMimetypeOf(file) ==
  IF file.realMimetype # NoMime THEN file.realMimetype ELSE file.mimetype

\* groupFilesByType keeps one group per subdirectory, in the order in which
\* the subdirectories first occur; files without a subdirectory are dropped
RECURSIVE groupKeys(_, _, _)
groupKeys(files, i, keys) ==
  IF i > Len(files) THEN keys
  ELSE LET subdir == getSubdirByRealMimetype(realMimetypeOf(files[i]))
       IN groupKeys(files, i + 1,
            IF subdir = "none" \/ \E k \in 1..Len(keys) : keys[k] = subdir
            THEN keys ELSE Append(keys, subdir))

groupFilesByType(files) ==
  LET keys == groupKeys(files, 1, <<>>)
      InGroup(subdir) ==
        LET Test(f) == getSubdirByRealMimetype(realMimetypeOf(f)) = subdir
        IN SelectSeq(files, Test)
  IN [k \in 1..Len(keys) |-> [subdir |-> keys[k], files |-> InGroup(keys[k])]]

\* moveSingleFile: the attachment record of one moved file; in the generated
\* file name uuidv4() + ext the UUID is represented by the serial number of
\* the file within the call
moveSingleFile(file, messageId, subdirName, serial) ==
  [filename |-> [dir |-> messageId, subdir |-> subdirName,
                 name |-> [n |-> serial, ext |-> getExtensionFromMime(realMimetypeOf(file))]],
   mimetype |-> realMimetypeOf(file)]

\* moveSingleFile that copies: the file stays at its temporary path as well
renameSync_copies(tmp, file) == tmp

\* fs.renameSync(file.filepath, newPath) seen from the upload directory: the
\* temporary file is no longer there
renameSync(tmp, file) == tmp \ {file.filepath}

\* the calls of moveSingleFile in the order in which processFileGroup makes
\* them over the groups: each file with the subdirectory of its group
RECURSIVE movePlan(_, _, _)
movePlan(groups, g, plan) ==
  IF g > Len(groups) THEN plan
  ELSE movePlan(groups, g + 1,
         plan \o [j \in 1..Len(groups[g].files) |->
                    [file |-> groups[g].files[j], subdir |-> groups[g].subdir]])

\* Outcomes of the organizer's filesystem calls: all succeed, the first
\* mkdirSync (of uploads/{messageId}) throws, or the at-th call of
\* moveSingleFile throws in its mkdirSync or renameSync
OrganizeOutcomes ==
  {[kind |-> "ok", at |-> 0], [kind |-> "emkdir", at |-> 0]}
    \cup {[kind |-> "erename", at |-> j] : j \in 1..(MaxUpload + MaxFiles)}

\* the outcomes that differ for a call that is to move n files
OrganizeOutcomesFor(n) ==
  IF n = 0 THEN {[kind |-> "ok", at |-> 0]}
  ELSE {org \in OrganizeOutcomes : org.at <= n}

\* the first call of moveSingleFile that throws, 0 when none does: the one the
\* filesystem fails, or earlier one whose file has no filepath to rename
firstFailure(plan, org) ==
  LET failing == {j \in 1..Len(plan) :
                    \/ plan[j].file.filepath = 0
                    \/ org.kind = "erename" /\ org.at = j}
  IN IF failing = {} THEN 0
     ELSE CHOOSE j \in failing : \A k \in failing : j <= k

\* an organizer that undoes its moves when a later one throws
relocatedBefore_rollback(failed, n) == IF failed = 0 THEN n ELSE 0

\* how many of the n calls of moveSingleFile have completed when the
\* failed-th throws: files.map stops there and nothing is undone
relocatedBefore(failed, n) == IF failed = 0 THEN n ELSE failed - 1

\* the content of an uploaded file: its signature and the rest of its bytes,
\* told apart by the file they were sent in
bytesOf(file) == [signature |-> file.content, body |-> file.filepath]

\* the moves of the plan made one after the other until the failed-th throws
\* (all of them when failed is 0): the attachment records, the files put
\* under uploads/{messageId} and the temporary files that remain
RECURSIVE processFileGroups(_, _, _, _, _)
processFileGroups(plan, j, last, messageId, done) ==
  IF j > last THEN done
  ELSE processFileGroups(plan, j + 1, last, messageId,
         [files |-> Append(done.files,
                           moveSingleFile(plan[j].file, messageId, plan[j].subdir, j)),
          stored |-> done.stored \cup
                       {[path |-> moveSingleFile(plan[j].file, messageId,
                                                 plan[j].subdir, j).filename,
                         bytes |-> bytesOf(plan[j].file)]},
          tmp |-> renameSync(done.tmp, plan[j].file)])

\* the organizer's loop over the groups, given the first call that throws
organizeGroups(plan, failed, messageId, tmp) ==
  LET done == processFileGroups(plan, 1, relocatedBefore(failed, Len(plan)), messageId,
                                [files |-> <<>>, stored |-> {}, tmp |-> tmp])
  IN [files |-> IF failed = 0 THEN done.files ELSE <<>>,
      messageId |-> messageId, made |-> TRUE, threw |-> failed # 0,
      failedAt |-> failed, stored |-> done.stored, tmp |-> done.tmp]

\* organizeUploadedFiles: messageId is the UUID it draws when files is not
\* empty; made tells whether uploads/{messageId} was created, stored which
\* files were put under it, tmp which of the given temporary files remain
organizeUploadedFiles(files, messageId, org, tmp) ==
  IF Len(files) = 0
  THEN [files |-> <<>>, messageId |-> NoId, made |-> FALSE, threw |-> FALSE,
        failedAt |-> 0, stored |-> {}, tmp |-> tmp]
  ELSE IF org.kind = "emkdir"
  THEN [files |-> <<>>, messageId |-> messageId, made |-> FALSE, threw |-> TRUE,
        failedAt |-> 0, stored |-> {}, tmp |-> tmp]
  ELSE organizeGroups(movePlan(groupFilesByType(files), 1, <<>>),
                      firstFailure(movePlan(groupFilesByType(files), 1, <<>>), org),
                      messageId, tmp)

\* ------------------------------------------------------- file validation
\* fileTypeFromFile: throws when the file cannot be read, otherwise the type
\* its content shows (undefined when it shows none)
fileTypeFromFile(file) ==
  [threw |-> ~file.readable,
   mime |-> IF file.readable THEN file.content ELSE NoMime]

\* validateFile that accepts every type for which a subdirectory is configured
validateFile_byPrefix(file) ==
  LET detected == fileTypeFromFile(file)
  IN [isValid |-> ~detected.threw /\ getSubdirByRealMimetype(detected.mime) # "none",
      detectedMimeType |-> detected.mime,
      error |-> NoError]

\* validateFile: the error texts are 'Ошибка при валидации файла', 'Не удалось
\* определить тип файла по содержимому' and 'Тип файла "{mime}" не разрешен'
validateFile(file) ==
  LET detected == fileTypeFromFile(file)
  IN IF detected.threw
     THEN [isValid |-> FALSE, detectedMimeType |-> NoMime,
           error |-> [text |-> "validation failed", mime |-> NoMime]]
     ELSE IF detected.mime = NoMime
     THEN [isValid |-> FALSE, detectedMimeType |-> NoMime,
           error |-> [text |-> "type not detected", mime |-> NoMime]]
     ELSE IF detected.mime \notin ALLOWED_FILE_TYPES
     THEN [isValid |-> FALSE, detectedMimeType |-> detected.mime,
           error |-> [text |-> "type not allowed", mime |-> detected.mime]]
     ELSE [isValid |-> TRUE, detectedMimeType |-> detected.mime, error |-> NoError]

\* the names fileService.js binds by its imports; logger is not among them
fileServiceImports ==
  {"fs", "path", "uuidv4", "getExtensionFromMime", "getSubdirByRealMimetype", "UPLOADS_DIR"}

NoFault == [message |-> "", exceeded |-> FALSE, status |-> 0]

\* evaluating logger.warn(...) inside fileService.js: a ReferenceError when
\* the module has no binding for logger
fileServiceLoggerWarn ==
  IF "logger" \in fileServiceImports THEN NoFault
  ELSE [message |-> "logger is not defined", exceeded |-> FALSE, status |-> 0]

\* cleanupInvalidFile: unlinkSync, and in its catch the warning
cleanupInvalidFile(tmp, filepath, unlinkFails) ==
  IF unlinkFails THEN [tmp |-> tmp, fault |-> fileServiceLoggerWarn]
  ELSE [tmp |-> tmp \ {filepath}, fault |-> NoFault]

\* respondWithValidationError: status and body are set, then the warning
respondWithValidationError(file, error) ==
  [status |-> 400, error |-> error, fault |-> fileServiceLoggerWarn]

\* errorHandlerMiddleware: the response for an exception that reaches it
errorHandlerMiddleware(err) ==
  IF err.exceeded
  THEN [status |-> 413, error |-> [text |-> "file size limit", mime |-> NoMime]]
  ELSE [status |-> IF err.status # 0 THEN err.status ELSE 500,
        error |-> [text |-> err.message, mime |-> NoMime]]

\* fileValidationMiddleware over the files from the i-th on: outcome "next"
\* when every file passed (files then carry realMimetype), "responded" when it
\* answered itself, "threw" when an exception left it; examined lists the
\* files it validated with their results
RECURSIVE validateFrom(_, _, _, _, _)
validateFrom(files, i, tmp, unlinkFails, examined) ==
  IF i > Len(files)
  THEN [outcome |-> "next", files |-> files, tmp |-> tmp, examined |-> examined,
        status |-> 0, error |-> NoError, fault |-> NoFault]
  ELSE IF files[i].filepath = 0
  THEN validateFrom(files, i + 1, tmp, unlinkFails, examined)
  ELSE LET validationResult == validateFile(files[i])
           seen == Append(examined, [file |-> files[i], result |-> validationResult])
       IN IF validationResult.isValid
          THEN validateFrom([files EXCEPT ![i].realMimetype =
                                            validationResult.detectedMimeType],
                            i + 1, tmp, unlinkFails, seen)
          ELSE LET cleaned == cleanupInvalidFile(tmp, files[i].filepath, unlinkFails)
                   answer == respondWithValidationError(files[i], validationResult.error)
               IN IF cleaned.fault # NoFault
                  THEN [outcome |-> "threw", files |-> files, tmp |-> cleaned.tmp,
                        examined |-> seen, status |-> 0, error |-> NoError,
                        fault |-> cleaned.fault]
                  ELSE [outcome |-> IF answer.fault # NoFault THEN "threw" ELSE "responded",
                        files |-> files, tmp |-> cleaned.tmp, examined |-> seen,
                        status |-> answer.status, error |-> answer.error,
                        fault |-> answer.fault]

fileValidationMiddleware(files, tmp, unlinkFails) ==
  validateFrom(files, 1, tmp, unlinkFails, <<>>)

\* ------------------------------------------------------------- queries
QueryParams ==
  {AbsentParam, [kind |-> "text", value |-> 0]}
    \cup {[kind |-> "int", value |-> v] : v \in (-1)..MaxParam}

\* parseInt(x) || fallback: NaN and 0 are both falsy
parseIntOr(param, fallback) ==
  IF param.kind = "int" /\ param.value # 0 THEN param.value ELSE fallback

Max(a, b) == IF a >= b THEN a ELSE b

Min(a, b) == IF a <= b THEN a ELSE b

\* Array.prototype.sort with (a, b) => new Date(a.timestamp) - new Date(b.timestamp):
\* a stable sort, here by insertion after the last element that is not later
RECURSIVE sortByTimestamp(_)
sortByTimestamp(messages) ==
  IF Len(messages) = 0 THEN <<>>
  ELSE LET n == Len(messages)
           last == messages[n]
           front == sortByTimestamp(SubSeq(messages, 1, n - 1))
           keep == Cardinality({i \in 1..Len(front) : front[i].timestamp <= last.timestamp})
       IN SubSeq(front, 1, keep) \o <<last>> \o SubSeq(front, keep + 1, Len(front))

\* messages.slice(start, end) for start, end >= 0 (0-based, end exclusive)
slice(messages, start, end) == SubSeq(messages, start + 1, Min(end, Len(messages)))

\* listMessages that counts offset from the oldest message
listMessages_fromOldest(file, offsetParam, limitParam) ==
  LET messages == sortByTimestamp(readMessages(file))
      offset == parseIntOr(offsetParam, DefaultOffset)
      limit == parseIntOr(limitParam, DefaultLimit)
  IN slice(messages, Max(0, offset), Max(0, offset + limit))

\* GET /api/messages
listMessages(file, offsetParam, limitParam) ==
  LET messages == sortByTimestamp(readMessages(file))
      offset == parseIntOr(offsetParam, DefaultOffset)
      limit == parseIntOr(limitParam, DefaultLimit)
      total == Len(messages)
      start == Max(0, total - offset - limit)
      end == Max(0, total - offset)
  IN slice(messages, start, end)

\* positionOf without the sort
positionOf_unsorted(file, id) ==
  IF ~ValidMessageId(id) THEN [status |-> 400, position |-> -1]
  ELSE LET position == findIndex(readMessages(file), id) - 1
       IN IF position = -1 THEN [status |-> 404, position |-> -1]
          ELSE [status |-> 200, position |-> position]

\* GET /api/messages/:id/position: status and position (0-based)
positionOf(file, id) ==
  IF ~ValidMessageId(id) THEN [status |-> 400, position |-> -1]
  ELSE LET position == findIndex(sortByTimestamp(readMessages(file)), id) - 1
       IN IF position = -1 THEN [status |-> 404, position |-> -1]
          ELSE [status |-> 200, position |-> position]

\* ------------------------------------------------------------- handlers
Init ==
  /\ messagesFile = NoDocument   \* no messages.json yet
  /\ uploadDirs = {}
  /\ storedFiles = {}
  /\ uuidCount = 0
  /\ response = NoResponse
  /\ download = NoDownload
  /\ inflight = [c \in Calls |-> NoCall]

\* the temporary files the body parser wrote for the files of a request
tmpOf(files) == {files[k].filepath : k \in 1..Len(files)} \ {0}

\* a route that always draws the message id itself
newMessageId_ownUuid(messageId, count) ==
  Uuid(count + 1 + (IF messageId # NoId THEN 1 ELSE 0))

\* messageId || uuidv4(): the organizer's id, or the next UUID when it drew none
newMessageId(messageId, count) ==
  IF messageId # NoId THEN messageId ELSE Uuid(count + 1)

\* router.post(API_PATH) on the text and the files the middleware passed on,
\* with the clock reading and the filesystem outcomes it meets: the values it
\* leaves, with what the organizer returned. An exception is logged by the
\* handler's catch, which sets neither status nor body (Koa answers 404)
postHandler(text, files, now, org, w) ==
  IF text = "" /\ Len(files) = 0
  THEN [file |-> messagesFile, dirs |-> uploadDirs, stored |-> storedFiles,
        count |-> uuidCount,
        organized |-> organizeUploadedFiles(<<>>, NoId, org, tmpOf(files)),
        response |-> [NoResponse EXCEPT !.op = "submit", !.status = 400,
                        !.routed = TRUE,
                        !.error = [text |-> "no text or files", mime |-> NoMime]]]
  ELSE LET organized == organizeUploadedFiles(files, Uuid(uuidCount + 1), org, tmpOf(files))
           id == newMessageId(organized.messageId, uuidCount)
           newMessage == [id |-> id, message |-> text,
                          files |-> organized.files, timestamp |-> now]
           added == addMessage(messagesFile, newMessage, w)
           threw == organized.threw \/ added.threw
       IN [file |-> IF organized.threw THEN messagesFile ELSE added.file,
           dirs |-> IF organized.made THEN uploadDirs \cup {organized.messageId}
                    ELSE uploadDirs,
           stored |-> storedFiles \cup organized.stored,
           count |-> uuidCount + 1,
           organized |-> organized,
           response |-> [NoResponse EXCEPT
                           !.op = "submit", !.id = id, !.routed = TRUE,
                           !.status = IF threw THEN 404 ELSE 200,
                           !.result = IF threw THEN "throw" ELSE "ok",
                           !.wrote = ~organized.threw,
                           !.write = IF organized.threw THEN "ok" ELSE w,
                           !.data = IF threw THEN <<>> ELSE <<newMessage>>,
                           !.document = IF organized.threw THEN "none"
                                        ELSE documentState(messagesFile)]]

\* POST /api/messages reaching the route handler with validated files
Submit(text, files, now, org, w) ==
  /\ Len(readMessages(messagesFile)) < MaxMsgs
  /\ UNCHANGED suspended
  /\ uuidCount < MaxIds
  /\ \E done \in {postHandler(text, files, now, org, w)} :
        /\ messagesFile' = done.file
        /\ uploadDirs' = done.dirs
        /\ storedFiles' = done.stored
        /\ uuidCount' = done.count
        /\ response' = done.response

\* POST /api/messages through the middleware chain: the body parser has
\* written the temporary files, fileValidationMiddleware examines them and
\* either passes the request on to the route handler, answers it, or throws
\* to errorHandlerMiddleware
Post(text, rawFiles, now, unlinkFails, org, w) ==
  /\ Len(readMessages(messagesFile)) < MaxMsgs
  /\ uuidCount < MaxPosts
  /\ UNCHANGED suspended
  /\ \E checked \in {fileValidationMiddleware(rawFiles, tmpOf(rawFiles), unlinkFails)} :
     \E done \in {postHandler(text, checked.files, now, org, w)},
        caught \in {errorHandlerMiddleware(checked.fault)} :
        IF checked.outcome = "next"
        THEN /\ messagesFile' = done.file
             /\ uploadDirs' = done.dirs
             /\ storedFiles' = done.stored
             /\ uuidCount' = done.count
             /\ response' = [done.response EXCEPT
                               !.examined = checked.examined,
                               !.organize = org,
                               !.organizeThrew = done.organized.threw,
                               !.failedAt = done.organized.failedAt,
                               !.relocated = done.organized.stored,
                               !.tmpLeft = done.organized.tmp]
        ELSE /\ response' = [NoResponse EXCEPT
                               !.op = "submit", !.examined = checked.examined,
                               !.tmpLeft = checked.tmp, !.unlinkFailed = unlinkFails,
                               !.status = IF checked.outcome = "threw"
                                          THEN caught.status ELSE checked.status,
                               !.error = IF checked.outcome = "threw"
                                         THEN caught.error ELSE checked.error]
             /\ UNCHANGED <<messagesFile, uploadDirs, storedFiles, uuidCount>>

\* DELETE /api/messages/:id; an exception reaches errorHandlerMiddleware (500)
Delete(id, rmFails, w) ==
  \E done \in {deleteMessage(messagesFile, uploadDirs, id, rmFails, w)} :
     /\ messagesFile' = done.file
     /\ uploadDirs' = done.dirs
     /\ storedFiles' = {f \in storedFiles : f.path.dir \in done.dirs}
     /\ response' = [NoResponse EXCEPT !.op = "delete", !.id = id,
                       !.status = CASE done.result = "true" -> 200
                                    [] done.result = "false" -> 404
                                    [] OTHER -> 500,
                       !.result = done.result, !.wrote = done.wrote,
                       !.write = w,
                       !.rmFailed = IF rmFails THEN {id} ELSE {},
                       !.dirsRemoved = uploadDirs \ done.dirs]
     /\ UNCHANGED <<uuidCount, suspended>>

\* DELETE /api/messages
Clear(rmFailSet, w) ==
  \E done \in {clearAllMessages(messagesFile, uploadDirs, rmFailSet, w)} :
     /\ messagesFile' = done.file
     /\ uploadDirs' = done.dirs
     /\ storedFiles' = {f \in storedFiles : f.path.dir \in done.dirs}
     /\ response' = [NoResponse EXCEPT !.op = "clear",
                       !.status = IF done.result = "true" THEN 200 ELSE 500,
                       !.result = done.result, !.wrote = TRUE, !.write = w,
                       !.rmFailed = rmFailSet,
                       !.dirsRemoved = uploadDirs \ done.dirs]
     /\ UNCHANGED <<uuidCount, suspended>>

\* GET /api/messages?offset=..&limit=..
List(offsetParam, limitParam) ==
  /\ response' = [NoResponse EXCEPT !.op = "list", !.status = 200,
                    !.offset = offsetParam, !.limit = limitParam,
                    !.data = listMessages(messagesFile, offsetParam, limitParam)]
  /\ UNCHANGED <<messagesFile, uploadDirs, storedFiles, uuidCount>>
  /\ UNCHANGED suspended

\* GET /api/messages/:id/position
Position(id) ==
  LET found == positionOf(messagesFile, id)
  IN /\ response' = [NoResponse EXCEPT !.op = "position", !.id = id,
                       !.status = found.status, !.position = found.position]
     /\ UNCHANGED <<messagesFile, uploadDirs, storedFiles, uuidCount>>
     /\ UNCHANGED suspended

\* ---------------------------------------------------------- environment
\* The filesystem outcomes a call can meet are those of the calls it makes.
StoredIds == {readMessages(messagesFile)[i].id : i \in 1..Len(readMessages(messagesFile))}

\* ids of the stored messages that have attachments and a directory
Removable ==
  {id \in uploadDirs : \E i \in 1..Len(readMessages(messagesFile)) :
     /\ readMessages(messagesFile)[i].id = id
     /\ Len(readMessages(messagesFile)[i].files) > 0}

SubmitStep ==
  \E text \in Texts, files \in Uploads, now \in ClockTimes :
    \E org \in OrganizeOutcomesFor(Len(files)) :
      \E w \in (IF org.kind = "ok" /\ (text # "" \/ Len(files) > 0) THEN WriteOutcomes ELSE {"ok"}) :
        Submit(text, files, now, org, w)

DeleteStep ==
  \E id \in RequestIds :
    \E rmFails \in (IF id \in Removable THEN BOOLEAN ELSE {FALSE}) :
      \E w \in (IF id \in StoredIds THEN WriteOutcomes ELSE {"ok"}) :
        Delete(id, rmFails, w)

ClearStep ==
  \E rmFailSet \in SUBSET Removable, w \in WriteOutcomes : Clear(rmFailSet, w)

ListStep ==
  \E offsetParam \in QueryParams, limitParam \in QueryParams :
    List(offsetParam, limitParam)

PositionStep == \E id \in RequestIds : Position(id)

Next == SubmitStep \/ DeleteStep \/ ClearStep

Spec == Init /\ [][Next]_vars

\* ------------------------------------------------------ upload requests
\* The files a client can send: the k-th file of a request is one of
\*   a PNG and an MP4 declared as what they are,
\*   a PNG declared as a PDF, and a PDF declared as a PNG,
\*   a BMP (an image type outside the allow-list),
\*   a text file (no signature) and a file that cannot be read,
\*   a record without filepath, declared as a PDF or as a PNG.
RawFiles(k) ==
  { UploadFile(k, Mime("image", "png"), Mime("image", "png"), TRUE),
    UploadFile(k, Mime("video", "mp4"), Mime("video", "mp4"), TRUE),
    UploadFile(k, Mime("application", "pdf"), Mime("image", "png"), TRUE),
    UploadFile(k, Mime("image", "png"), Mime("application", "pdf"), TRUE),
    UploadFile(k, Mime("image", "bmp"), Mime("image", "bmp"), TRUE),
    UploadFile(k, Mime("image", "png"), NoMime, TRUE),
    UploadFile(k, Mime("image", "png"), NoMime, FALSE),
    UploadFile(0, Mime("application", "pdf"), NoMime, FALSE),
    UploadFile(0, Mime("image", "png"), NoMime, FALSE) }

RECURSIVE RawUploads(_)
RawUploads(n) ==
  IF n = 0 THEN {<<>>}
  ELSE RawUploads(n - 1)
         \cup {Append(s, f) : s \in {u \in RawUploads(n - 1) : Len(u) = n - 1},
                               f \in RawFiles(n)}

\* whether fileValidationMiddleware passes the files on, and how many of them
\* the organizer is then to move
Passes(rawFiles) == fileValidationMiddleware(rawFiles, tmpOf(rawFiles), FALSE).outcome = "next"

PlannedMoves(rawFiles) ==
  Len(movePlan(groupFilesByType(
        fileValidationMiddleware(rawFiles, tmpOf(rawFiles), FALSE).files), 1, <<>>))

\* whether every file the organizer is to move has a temporary file to rename
Movable(rawFiles) ==
  firstFailure(movePlan(groupFilesByType(
                 fileValidationMiddleware(rawFiles, tmpOf(rawFiles), FALSE).files), 1, <<>>),
               [kind |-> "ok", at |-> 0]) = 0

\* every file list of a request, with what the middleware makes of it when
\* the cleanup succeeds: whether it passes the files on, and how many moves
\* the organizer is then to make
Requests ==
  {[files |-> rawFiles, passes |-> Passes(rawFiles), moves |-> PlannedMoves(rawFiles),
    movable |-> Movable(rawFiles)] :
     rawFiles \in RawUploads(MaxUpload)}

PostStep ==
  /\ uuidCount < MaxPosts
  /\ \E text \in Texts, request \in Requests, now \in ClockTimes :
       \E unlinkFails \in (IF request.passes THEN {FALSE} ELSE BOOLEAN) :
         \E org \in (IF request.passes THEN OrganizeOutcomesFor(request.moves)
                     ELSE {[kind |-> "ok", at |-> 0]}) :
           \E w \in (IF request.passes /\ org.kind = "ok"
                          /\ (text # "" \/ Len(request.files) > 0)
                     THEN WriteOutcomes ELSE {"ok"}) :
             Post(text, request.files, now, unlinkFails, org, w)

NextUpload == PostStep \/ DeleteStep \/ ClearStep

SpecUpload == Init /\ [][NextUpload]_vars

\* the same requests when no filesystem call fails
PostNoFail ==
  /\ uuidCount < MaxPosts
  /\ \E text \in Texts, request \in Requests, now \in ClockTimes :
       /\ request.movable
       /\ Post(text, request.files, now, FALSE, [kind |-> "ok", at |-> 0], "ok")

DeleteNoFail == \E id \in RequestIds : Delete(id, FALSE, "ok")

ClearNoFail == Clear({}, "ok")

NextNoFail == PostNoFail \/ DeleteNoFail \/ ClearNoFail

SpecNoFail == Init /\ [][NextNoFail]_vars

\* ------------------------------------------------- queried documents
\* Every document of at most MaxMsgs text messages with distinct UUIDs, in
\* any on-disk order and with any timestamps.
RECURSIVE DocsOfLen(_)
DocsOfLen(n) ==
  IF n = 0 THEN {<<>>}
  ELSE {Append(d, [id |-> id, message |-> "hi", files |-> <<>>, timestamp |-> t]) :
          d \in DocsOfLen(n - 1), id \in Uuids, t \in Times}

QueryDocs ==
  {d \in UNION {DocsOfLen(n) : n \in 0..MaxMsgs} :
     \A i, j \in 1..Len(d) : i # j => d[i].id # d[j].id}

InitQuery ==
  /\ messagesFile \in {Document(d) : d \in QueryDocs}
  /\ uploadDirs = {}
  /\ storedFiles = {}
  /\ uuidCount = MaxIds
  /\ response = NoResponse
  /\ download = NoDownload
  /\ inflight = [c \in Calls |-> NoCall]

NextQuery == ListStep \/ PositionStep

SpecQuery == InitQuery /\ [][NextQuery]_vars

\* ================================================================ claims
\* what readMessages returns before and after a step
Stored == readMessages(messagesFile)

StoredAfter == readMessages(messagesFile')

StoredIdsAfter == {StoredAfter[i].id : i \in 1..Len(StoredAfter)}

\* ids of the stored messages that have at least one attachment
WithFiles == {Stored[i].id : i \in {j \in 1..Len(Stored) : Len(Stored[j].files) > 0}}

WithFilesAfter ==
  {StoredAfter[i].id : i \in {j \in 1..Len(StoredAfter) : Len(StoredAfter[j].files) > 0}}

IssuedIds == {Uuid(k) : k \in 1..uuidCount}

\* C1: every addMessage that does not fail leaves readMessages equal to what
\* it returned before followed by the new message; by induction a run of
\* such calls m1..mn from the document S yields S, m1, .., mn in call order,
\* with nothing lost, duplicated or reordered.
C1_AddAppends ==
  [][(response'.op = "submit" /\ response'.result = "ok")
       => /\ Len(response'.data) = 1
          /\ response'.data[1].id = response'.id
          /\ response'.id \notin StoredIds
          /\ StoredAfter = Stored \o response'.data]_vars

C1_Witness ==
  /\ response.op = "submit"
  /\ response.result = "ok"
  /\ Len(Stored) >= 3
  /\ Stored[Len(Stored)] = response.data[1]

\* C2: deleteMessage(id) for an id that no stored message has returns false,
\* does not call writeMessages, and leaves messages.json and every directory
\* under uploads/ as they were.
C2_DeleteAbsent ==
  [][(response'.op = "delete" /\ response'.id \notin StoredIds)
       => /\ response'.result = "false"
          /\ response'.status = 404
          /\ ~response'.wrote
          /\ messagesFile' = messagesFile
          /\ uploadDirs' = uploadDirs]_vars

\* an absent id whose directory exists (left by a failed submit or a failed
\* removal) is asked to be deleted while other messages are stored
C2_Witness ==
  /\ response.op = "delete"
  /\ response.result = "false"
  /\ response.id \in uploadDirs
  /\ Len(Stored) >= 1

C4_RecordRemoval ==
  [][(response'.op = "delete" /\ response'.id \in StoredIds)
       => LET spliced == splice(Stored, findIndex(Stored, response'.id))
          IN /\ response'.wrote
             /\ messagesFile' = writeMessages(messagesFile, spliced, response'.write).file
             /\ response'.write = "ok"
                  => /\ response'.result = "true"
                     /\ response'.status = 200
                     /\ StoredAfter = spliced
                     /\ response'.id \notin StoredIdsAfter]_vars

\* the directory could not be removed and is still there, yet the record
\* is gone and true was returned
C4_Witness ==
  /\ response.op = "delete"
  /\ response.result = "true"
  /\ response.rmFailed = {response.id}
  /\ response.id \in uploadDirs
  /\ response.id \notin StoredIds

\* every stored message with attachments has its directory uploads/{id}
DirsOfStored == WithFiles \subseteq uploadDirs

C6_ClearEmpties ==
  [][(response'.op = "clear" /\ response'.result = "true")
       => /\ StoredAfter = <<>>
          /\ messagesFile'.ok
          /\ response'.rmFailed = {} => WithFiles \cap uploadDirs' = {}]_vars

C6_Witness ==
  /\ response.op = "clear"
  /\ response.result = "true"
  /\ response.rmFailed = {}
  /\ Cardinality(response.dirsRemoved) >= 2
  /\ Stored = <<>>

\* C7: clearAllMessages returns false only when the final persist fails (its
\* read cannot fail); a removal that fails does not keep the directories of
\* the other messages from being removed, nor the empty document from being
\* written and true from being returned.
C7_ClearBestEffort ==
  [][response'.op = "clear"
       => /\ response'.result \in {"true", "false"}
          /\ response'.result = "false" <=> response'.write # "ok"
          /\ response'.write = "ok" => messagesFile' = Document(<<>>)
          /\ \A id \in WithFiles : id \notin response'.rmFailed => id \notin uploadDirs'
          /\ uploadDirs' \subseteq uploadDirs]_vars

\* the directory of an earlier message could not be removed, that of a later
\* message was removed all the same, and true was returned
C7_Witness ==
  /\ response.op = "clear"
  /\ response.result = "true"
  /\ \E a \in response.rmFailed, b \in response.dirsRemoved : a.n < b.n
  /\ Stored = <<>>

\* ------------------------------------------------------ queries: claims
\* The rank of the i-th stored message: how many stored messages are older,
\* or as old and earlier in the document.
Rank(i) ==
  Cardinality({j \in 1..Len(Stored) :
                 \/ Stored[j].timestamp < Stored[i].timestamp
                 \/ Stored[j].timestamp = Stored[i].timestamp /\ j < i})

\* the stored messages in ascending order of timestamp
Ascending == [k \in 1..Len(Stored) |-> Stored[CHOOSE i \in 1..Len(Stored) : Rank(i) = k - 1]]

RankOfId(id) == Rank(CHOOSE i \in 1..Len(Stored) : Stored[i].id = id)

Clamp(x) == Min(Max(x, 0), Len(Stored))

\* the elements of Ascending at the 0-based indices [lo, hi) clamped to [0, total]
Window(lo, hi) == SubSeq(Ascending, Clamp(lo) + 1, Clamp(hi))

IntParam(v) == [kind |-> "int", value |-> v]

\* C8 as stated: for every offset and limit the list operation returns the
\* window [total - offset - limit, total - offset), clamped to [0, total], of
\* the messages in ascending order of timestamp.
C8_Original ==
  (response.op = "list" /\ response.offset.kind = "int" /\ response.limit.kind = "int")
    => response.data = Window(Len(Stored) - response.offset.value - response.limit.value,
                              Len(Stored) - response.offset.value)

\* the page that offset k * L and limit L select
PageOf(L, k) == listMessages(messagesFile, IntParam(k * L), IntParam(L))

PageIds(L, k) == {PageOf(L, k)[i].id : i \in 1..Len(PageOf(L, k))}

PageNumbers == 0..(MaxMsgs + 1)

\* C9: for a limit L >= 1 the pages at offsets 0, L, 2L, .. are pairwise
\* disjoint, every message of a later page is older than every message of an
\* earlier page, each page holds min(L, remaining) messages in ascending
\* order, together the pages hold every stored message, and a page whose
\* offset is at least the number of stored messages is empty.
C9_Pages ==
  \A L \in 1..MaxParam :
    /\ \A k1, k2 \in PageNumbers :
         k1 < k2 =>
           /\ PageIds(L, k1) \cap PageIds(L, k2) = {}
           /\ \A a \in PageIds(L, k2), b \in PageIds(L, k1) : RankOfId(a) < RankOfId(b)
    /\ \A k \in PageNumbers :
         /\ Len(PageOf(L, k)) = Min(L, Max(0, Len(Stored) - k * L))
         /\ \A i, j \in 1..Len(PageOf(L, k)) :
              i < j => /\ RankOfId(PageOf(L, k)[i].id) < RankOfId(PageOf(L, k)[j].id)
                       /\ PageOf(L, k)[i].timestamp <= PageOf(L, k)[j].timestamp
         /\ k * L >= Len(Stored) => PageOf(L, k) = <<>>
    /\ UNION {PageIds(L, k) : k \in PageNumbers} = StoredIds
    /\ PageOf(L, 0) = Window(Len(Stored) - L, Len(Stored))

\* a second page was asked for and holds the one message the first left over
C9_Witness ==
  /\ response.op = "list"
  /\ response.limit = IntParam(2)
  /\ response.offset = IntParam(2)
  /\ Len(Stored) = 3
  /\ response.data = PageOf(2, 1)
  /\ Len(response.data) = 1
  /\ Stored[1] # Ascending[1]

\* C10 as stated: the position operation returns the rank of every stored
\* message and reports not-found for every id that is not stored.
C10_Original ==
  response.op = "position"
    => IF response.id \in StoredIds
       THEN response.status = 200 /\ response.position = RankOfId(response.id)
       ELSE response.status = 404

\* C10 amended: the position operation returns the rank of every stored
\* message (messages with equal timestamps keep their order in the
\* document), reports not-found for a well-formed id that is not stored, and
\* rejects an id that is not 36 characters of [a-f0-9-] as invalid.
C10_Position ==
  response.op = "position"
    => CASE response.id \in StoredIds ->
              /\ response.status = 200
              /\ response.position = RankOfId(response.id)
              /\ Ascending[response.position + 1].id = response.id
         [] response.id \notin StoredIds /\ ValidMessageId(response.id) ->
              response.status = 404 /\ response.position = -1
         [] OTHER ->
              response.status = 400 /\ response.position = -1

\* the message asked for is first in the document but not the oldest
C10_Witness ==
  /\ response.op = "position"
  /\ response.status = 200
  /\ Len(Stored) = 3
  /\ Stored[1].id = response.id
  /\ response.position = 2

\* ------------------------------------------------------ uploads: claims
\* C11: every persisted message has non-empty text or at least one attachment.
C11_Original ==
  \A i \in 1..Len(Stored) : Stored[i].message # "" \/ Len(Stored[i].files) > 0

\* position in the sequence after of the message with the id of before[i],
\* 0 when it has none
SurvivesAt(before, after, i) == findIndex(after, before[i].id)

\* C12: no two stored messages share an id; whatever a step does, a message
\* that is still stored afterwards has the id, text, files and timestamp it
\* had, and two such messages keep their relative order; an addMessage that
\* returns keeps every stored message, a deleteMessage that returns keeps
\* every stored message other than the one it was asked to delete. (A step
\* that leaves the sequence as it was satisfies all of this but the first.)
C12_Immutable ==
  [][\A before \in {Stored}, after \in {StoredAfter} :
       /\ Cardinality({after[k].id : k \in 1..Len(after)}) = Len(after)
       /\ \/ after = before
          \/ /\ \A i \in 1..Len(before) :
                  SurvivesAt(before, after, i) # 0
                    => after[SurvivesAt(before, after, i)] = before[i]
             /\ \A i, j \in 1..Len(before) :
                  (i < j /\ SurvivesAt(before, after, i) # 0
                         /\ SurvivesAt(before, after, j) # 0)
                    => SurvivesAt(before, after, i) < SurvivesAt(before, after, j)
             /\ (response'.op = "submit" /\ response'.result = "ok")
                  => \A i \in 1..Len(before) : SurvivesAt(before, after, i) # 0
             /\ (response'.op = "delete" /\ response'.result \in {"true", "false"})
                  => \A i \in 1..Len(before) :
                       before[i].id # response'.id => SurvivesAt(before, after, i) # 0]_vars

\* a deleteMessage returned true and left two messages stored, the deleted
\* one having stood before the last of them
C12_Witness ==
  /\ response.op = "delete"
  /\ response.result = "true"
  /\ Len(Stored) >= 2
  /\ response.id.n < Stored[Len(Stored)].id.n

\* C13: when no I/O step fails, uploads/{id} exists if and only if a stored
\* message with that id has at least one attachment.
C13_Original == uploadDirs = WithFiles

\* the stored paths of the attachments of a message
PathsOf(m) == {m.files[k].filename : k \in 1..Len(m.files)}

\* the paths of the files that exist under uploads/{id}
FilesUnder(id) == {f.path : f \in {g \in storedFiles : g.path.dir = id}}

Subdirs == {FILE_TYPE_CONFIG[i].subdir : i \in 1..Len(FILE_TYPE_CONFIG)}

\* C14: every attachment of a stored message has a path {message.id}/{subdir}/
\* {generated name} with subdir one of images, videos, audios, one path per
\* attachment; while uploads/{id} exists it holds exactly the files of the
\* message with that id; two distinct stored messages share no path.
C14_OwnPaths ==
  \A i \in 1..Len(Stored) :
    /\ \A k \in 1..Len(Stored[i].files) :
         /\ Stored[i].files[k].filename.dir = Stored[i].id
         /\ Stored[i].files[k].filename.subdir \in Subdirs
         /\ \A l \in 1..Len(Stored[i].files) :
              Stored[i].files[l].filename = Stored[i].files[k].filename => l = k
    /\ Stored[i].id \in uploadDirs => FilesUnder(Stored[i].id) = PathsOf(Stored[i])
    /\ \A j \in 1..Len(Stored) : j # i => PathsOf(Stored[i]) \cap PathsOf(Stored[j]) = {}

\* two messages with attachments are stored, the directories of both exist
C14_Witness ==
  \E i, j \in 1..Len(Stored) :
    /\ i # j
    /\ PathsOf(Stored[i]) # {} /\ PathsOf(Stored[j]) # {}
    /\ {Stored[i].id, Stored[j].id} \subseteq uploadDirs

\* the content types the validation is to accept
AllowListed ==
  {Mime("image", "jpeg"), Mime("image", "png"), Mime("image", "gif"),
   Mime("image", "webp"), Mime("video", "mp4"), Mime("audio", "mpeg"),
   Mime("audio", "wav")}

\* C15: validateFile returns a result for every file, readable or not; the
\* result is accepted, with the detected type, exactly when the content is
\* readable and of an allow-listed type, whatever type was declared; content
\* of no detectable type, and an unreadable file, are rejected with no type;
\* content of a type outside the allow-list is rejected with that type, which
\* the reason names.
C15_ValidateByContent ==
  /\ ALLOWED_FILE_TYPES = AllowListed
  /\ \A k \in 1..Len(response.examined) :
      LET file == response.examined[k].file
          result == response.examined[k].result
      IN /\ result.isValid <=> (file.readable /\ file.content \in AllowListed)
         /\ result.isValid
              => result.detectedMimeType = file.content /\ result.error = NoError
         /\ (~file.readable \/ file.content = NoMime)
              => /\ ~result.isValid
                 /\ result.detectedMimeType = NoMime
                 /\ result.error.text # "" /\ result.error.mime = NoMime
         /\ (file.readable /\ file.content # NoMime /\ file.content \notin AllowListed)
              => /\ ~result.isValid
                 /\ result.detectedMimeType = file.content
                 /\ result.error = [text |-> "type not allowed", mime |-> file.content]

\* a request whose first file, a PNG declared as a PDF, was accepted as a PNG
\* and whose second file, a BMP, was rejected by name
C15_Witness ==
  /\ Len(response.examined) = 2
  /\ response.examined[1].file.mimetype = Mime("application", "pdf")
  /\ response.examined[1].result.isValid
  /\ response.examined[1].result.detectedMimeType = Mime("image", "png")
  /\ ~response.examined[2].result.isValid
  /\ response.examined[2].result.error.mime = Mime("image", "bmp")

\* the last file the middleware validated in the request just answered, and
\* whether it was turned down for a content type outside the allow-list
LastExamined == response'.examined[Len(response'.examined)]

RejectedByType ==
  /\ response'.op = "submit"
  /\ Len(response'.examined) > 0
  /\ LastExamined.result.error.text = "type not allowed"

\* C16: a submit with a file whose detected type is not allow-listed is
\* answered with a 4xx that names the reason, the temporary file of the
\* rejected file is gone, the route handler has not run and the store holds
\* what it held.
C16_Original ==
  [][RejectedByType
       => /\ response'.status \in 400..499
          /\ response'.error = LastExamined.result.error
          /\ LastExamined.file.filepath \notin response'.tmpLeft
          /\ ~response'.routed
          /\ messagesFile' = messagesFile]_vars

\* C17: when the temporary file of a rejected upload cannot be deleted, the
\* client still receives the validation rejection: status 400 and the reason
\* validateFile gave.
C17_Original ==
  [][(response'.op = "submit" /\ response'.unlinkFailed)
       => /\ response'.status = 400
          /\ response'.error = LastExamined.result.error]_vars

\* the subdirectory that the claim assigns to a verified type
SubdirOfType(mime) ==
  CASE mime.type = "image" -> "images"
    [] mime.type = "video" -> "videos"
    [] mime.type = "audio" -> "audios"
    [] OTHER -> "none"

\* the attachments of the message just created that stand for the file: path
\* under the message id and the subdirectory of the verified type, the file's
\* bytes stored at that path
AttachmentsFor(file, verified) ==
  {a \in 1..Len(response.data[1].files) :
     LET att == response.data[1].files[a]
     IN /\ att.filename.dir = response.id
        /\ att.filename.subdir = SubdirOfType(verified)
        /\ att.mimetype = verified
        /\ [path |-> att.filename, bytes |-> bytesOf(file)] \in storedFiles}

\* C18: after a submit that succeeded, every file the validation accepted
\* with type T has exactly one attachment, under {messageId}/{subdirectory of
\* T}/, with the file's bytes at that path and nothing left at its temporary
\* path; there are no other attachments and all carry the message's id.
C18_MovesNotCopies ==
  (response.op = "submit" /\ response.result = "ok")
    => /\ \A k \in 1..Len(response.examined) :
            /\ Cardinality(AttachmentsFor(response.examined[k].file,
                                          response.examined[k].result.detectedMimeType)) = 1
            /\ response.examined[k].file.filepath \notin response.tmpLeft
       /\ Len(response.data[1].files) = Len(response.examined)
       /\ \A a \in 1..Len(response.data[1].files) :
            response.data[1].files[a].filename.dir = response.id

\* a PNG and an MP4 were submitted and stored under images/ and videos/
C18_Witness ==
  /\ response.op = "submit"
  /\ response.result = "ok"
  /\ Len(response.examined) = 2
  /\ Len(response.data[1].files) = 2
  /\ response.data[1].files[1].filename.subdir = "images"
  /\ response.data[1].files[2].filename.subdir = "videos"
  /\ response.tmpLeft = {}

\* C19: when the organizer throws during a submit, be it in creating the
\* message directory or in a later move, no message is appended, the answer
\* is not a success, and the files moved before the failure stay where they
\* were put, their temporary files gone: as many as moves had completed.
C19_NoRollback ==
  [][(response'.op = "submit" /\ response'.organizeThrew)
       => /\ messagesFile' = messagesFile
          /\ ~response'.wrote
          /\ response'.result = "throw"
          /\ response'.status \notin 200..299
          /\ response'.data = <<>>
          /\ response'.relocated \subseteq storedFiles'
          /\ storedFiles \subseteq storedFiles'
          /\ \A f \in response'.relocated :
               f.path.dir = response'.id /\ f.bytes.body \notin response'.tmpLeft
          /\ Cardinality(response'.relocated) =
               (IF response'.failedAt = 0 THEN 0 ELSE response'.failedAt - 1)]_vars

\* the second move of a submit failed: the first file is in the message
\* directory, the second still at its temporary path, no message stored
C19_Witness ==
  /\ response.op = "submit"
  /\ response.organizeThrew
  /\ response.failedAt = 2
  /\ Cardinality(response.relocated) = 1
  /\ response.tmpLeft # {}
  /\ response.id \in uploadDirs
  /\ response.id \notin StoredIds

\* C20: a submit that meets an I/O fault in creating a directory, moving a
\* file or persisting the document is answered with status 500.
C20_Original ==
  (response.op = "submit" /\ response.routed /\ response.result = "throw")
    => response.status = 500

\* ------------------------------------------ GET /api/uploads/:messageId/...
\* The character classes of the strings the model writes as literals:
\* "a-f", "g-z", "0-9", "A-Z", "." and "/".  For an extension these are the
\* classes of what follows its leading dot.
charsOf(s) ==
  CASE s \in {".jpg", ".png"}                       -> {"g-z"}
    [] s \in {".mp4", ".mp3"}                       -> {"g-z", "0-9"}
    [] s \in {".gif", ".webp", ".wav", ".bin"}      -> {"a-f", "g-z"}
    [] s \in {"images", "videos", "audios", "none"} -> {"a-f", "g-z"}
    [] s = ".JPG"                                   -> {"A-Z"}
    [] s = "Images"                                 -> {"A-Z", "a-f", "g-z"}
    [] s = ".."                                     -> {"."}
    [] OTHER                                        -> {}

\* String.prototype.toLowerCase on these strings
toLowerCase(s) ==
  CASE s = ".JPG" -> ".jpg"
    [] s = "Images" -> "images"
    [] OTHER -> s

\* /^[a-z]+$/.test(subdir)
validSubdir(subdir) ==
  subdir # "" /\ charsOf(subdir) # {} /\ charsOf(subdir) \subseteq {"a-f", "g-z"}

\* a file name that matches any name with an extension
validFilename_anyStem(filename) ==
  /\ filename.ext \notin {"", "."}
  /\ charsOf(filename.ext) \subseteq {"a-f", "g-z", "0-9"}

\* /^[a-f0-9\-]+\.[a-z0-9]+$/.test(filename): neither class holds the dot, so
\* the name has exactly one, with [a-f0-9\-]+ before it and [a-z0-9]+ after
validFilename(filename) ==
  /\ filename.stem.len >= 1
  /\ filename.stem.chars \subseteq UuidChars
  /\ filename.ext \notin {"", "."}
  /\ charsOf(filename.ext) # {}
  /\ charsOf(filename.ext) \subseteq {"a-f", "g-z", "0-9"}

OctetStream == Mime("application", "octet-stream")

\* Object.keys(MIME_TO_EXT).find(key => MIME_TO_EXT[key] === ext)
\*   || 'application/octet-stream'
mimeTypeOfExt(ext) ==
  LET hits == {i \in 1..Len(MIME_TO_EXT) : MIME_TO_EXT[i].ext = ext}
  IN IF hits = {} THEN OctetStream
     ELSE MIME_TO_EXT[CHOOSE i \in hits : \A j \in hits : i <= j].mime

\* `${uuidv4()}${ext}`: the name moveSingleFile gave a file, as a URL segment
fileNameOf(name) == FileName(Uuid(name.n), name.ext)

\* path.join(UPLOADS_DIR, messageId, subdir, filename), relative to uploads/
joinPath(messageId, subdir, filename) ==
  [dir |-> messageId, subdir |-> subdir, name |-> filename]

\* fs.promises.access(filePath): whether a file is stored at the path
access(stored, filePath) ==
  \E f \in stored : /\ f.path.dir = filePath.dir
                    /\ f.path.subdir = filePath.subdir
                    /\ fileNameOf(f.path.name) = filePath.name

\* router.get('/uploads/:messageId/:subdir/:filename'): the status, the paths
\* it handed to the filesystem and the Content-Type it set
getUpload(stored, messageId, subdir, filename) ==
  IF ~ValidMessageId(messageId) \/ ~validSubdir(subdir) \/ ~validFilename(filename)
  THEN [status |-> 400, accessed |-> {}, contentType |-> NoMime]
  ELSE IF ~access(stored, joinPath(messageId, subdir, filename))
  THEN [status |-> 404, accessed |-> {joinPath(messageId, subdir, filename)},
        contentType |-> NoMime]
  ELSE [status |-> 200, accessed |-> {joinPath(messageId, subdir, filename)},
        contentType |-> mimeTypeOfExt(toLowerCase(filename.ext))]

\* GET /api/uploads/:messageId/:subdir/:filename
Fetch(messageId, subdir, filename) ==
  \E done \in {getUpload(storedFiles, messageId, subdir, filename)} :
     /\ response' = [NoResponse EXCEPT
                       !.op = "fetch", !.id = messageId, !.status = done.status,
                       !.url = [messageId |-> messageId, subdir |-> subdir,
                                filename |-> filename],
                       !.accessed = done.accessed,
                       !.contentType = done.contentType]
     /\ UNCHANGED <<messagesFile, uploadDirs, storedFiles, uuidCount>>
     /\ UNCHANGED suspended

\* ------------------------------------------------- serving stored files
\* "abc123": a short name of hex digits
ShortStem == [n |-> 0, len |-> 6, chars |-> {"hex"}]

\* "photo": letters outside a-f
WordStem == [n |-> 0, len |-> 5, chars |-> {"hex", "lower"}]

\* ".": what precedes the last dot of the file name ".."
DotStem == [n |-> 0, len |-> 1, chars |-> {"dot"}]

\* a name that starts with its only dot, as ".png"
EmptyStem == [n |-> 0, len |-> 0, chars |-> {}]

FetchIds == {Uuid(1), TraversalId, UpperId}

FetchSubdirs == {"images", "videos", "audios", "..", "Images"}

\* the names moveSingleFile can have given, and names of other shapes: "..",
\* "../../etc.jpg", upper case, no extension, no stem, "abc123.bin", "photo.jpg"
FetchNames ==
  {FileName(Uuid(k), MIME_TO_EXT[i].ext) : k \in 1..MaxAttach, i \in 1..Len(MIME_TO_EXT)}
    \cup {FileName(DotStem, "."), FileName(TraversalId, ".jpg"),
          FileName(UpperId, ".png"), FileName(Uuid(1), ".JPG"),
          FileName(Uuid(1), ""), FileName(EmptyStem, ".png"),
          FileName(ShortStem, ".bin"), FileName(WordStem, ".jpg")}

\* the uploads a message can be stored with: files of every allowed type
RECURSIVE ServedUploads(_)
ServedUploads(n) ==
  IF n = 0 THEN {<<>>}
  ELSE ServedUploads(n - 1)
         \cup {Append(s, ValidatedFile(n, t)) :
                 s \in {u \in ServedUploads(n - 1) : Len(u) = n - 1},
                 t \in ALLOWED_FILE_TYPES}

\* the store after one submit of the given files to an empty store
ServedStore(files) ==
  LET organized == organizeUploadedFiles(files, Uuid(1), [kind |-> "ok", at |-> 0],
                                         tmpOf(files))
      newMessage == [id |-> newMessageId(organized.messageId, 0), message |-> "hi",
                     files |-> organized.files, timestamp |-> 1]
  IN [file |-> addMessage(NoDocument, newMessage, "ok").file,
      dirs |-> IF organized.made THEN {organized.messageId} ELSE {},
      stored |-> organized.stored]

ServedStores == {ServedStore(files) : files \in ServedUploads(MaxAttach)}

InitServe ==
  /\ \E store \in ServedStores :
        /\ messagesFile = store.file
        /\ uploadDirs = store.dirs
        /\ storedFiles = store.stored
  /\ uuidCount = MaxIds
  /\ response = NoResponse
  /\ download = NoDownload
  /\ inflight = [c \in Calls |-> NoCall]

FetchStep ==
  \E messageId \in FetchIds, subdir \in FetchSubdirs, filename \in FetchNames :
     Fetch(messageId, subdir, filename)

NextFetch == FetchStep

SpecFetch == InitServe /\ [][NextFetch]_vars

\* the segments of a path handed to the filesystem
UnsafeChars == {"dot", "slash", ".", "/"}

SafeSegments(filePath) ==
  /\ filePath.dir.chars \cap UnsafeChars = {}
  /\ charsOf(filePath.subdir) \cap UnsafeChars = {}
  /\ filePath.subdir \notin {"", ".."}
  /\ filePath.name.stem.chars \cap UnsafeChars = {}
  /\ charsOf(filePath.name.ext) \cap UnsafeChars = {}

\* C21: a fetch whose messageId, subdir or filename does not match its
\* pattern is answered 400 before any filesystem access, and every path the
\* handler accesses is uploads/{messageId}/{subdir}/{filename} with no
\* segment that is ".." or holds a dot-dot or a separator.
C21_NoTraversal ==
  response.op = "fetch"
    => /\ (\/ ~ValidMessageId(response.url.messageId)
           \/ ~validSubdir(response.url.subdir)
           \/ ~validFilename(response.url.filename))
          => (response.status = 400 /\ response.accessed = {})
       /\ \A filePath \in response.accessed :
            /\ filePath = joinPath(response.url.messageId, response.url.subdir,
                                   response.url.filename)
            /\ SafeSegments(filePath)

\* a request with well-formed messageId and subdir and the file name ".." was
\* rejected without touching the filesystem
C21_Witness ==
  /\ response.op = "fetch"
  /\ response.status = 400
  /\ response.accessed = {}
  /\ ValidMessageId(response.url.messageId)
  /\ validSubdir(response.url.subdir)
  /\ response.url.filename = FileName(DotStem, ".")

\* the attachment records of the stored messages
StoredAttachments ==
  UNION {{Stored[i].files[j] : j \in 1..Len(Stored[i].files)} : i \in 1..Len(Stored)}

\* the attachment is fetched back: its three segments pass the route's
\* checks and the answer carries the type it was stored with
FetchedBack(att) ==
  /\ ValidMessageId(att.filename.dir)
  /\ validSubdir(att.filename.subdir)
  /\ validFilename(fileNameOf(att.filename.name))
  /\ getUpload(storedFiles, att.filename.dir, att.filename.subdir,
               fileNameOf(att.filename.name)).status = 200
  /\ getUpload(storedFiles, att.filename.dir, att.filename.subdir,
               fileNameOf(att.filename.name)).contentType = att.mimetype

\* C30: every attachment organizeUploadedFiles produced from an allow-listed
\* verified type T has URL segments that pass the fetch route's checks, and
\* the content type the route infers from its extension is T again.
C30_RoundTrip ==
  /\ \A T \in ALLOWED_FILE_TYPES :
       \E att \in {moveSingleFile(ValidatedFile(1, T), Uuid(1),
                                  getSubdirByRealMimetype(T), 1)} :
          /\ att.mimetype = T
          /\ ValidMessageId(att.filename.dir)
          /\ validSubdir(att.filename.subdir)
          /\ validFilename(fileNameOf(att.filename.name))
          /\ mimeTypeOfExt(toLowerCase(att.filename.name.ext)) = T
  /\ \A att \in StoredAttachments :
       att.mimetype \in ALLOWED_FILE_TYPES => FetchedBack(att)
  /\ (response.op = "fetch" /\ response.status = 200)
       => \E att \in StoredAttachments :
            /\ joinPath(att.filename.dir, att.filename.subdir,
                        fileNameOf(att.filename.name)) \in response.accessed
            /\ response.contentType = att.mimetype

\* a stored audio/wav file was fetched and answered as audio/wav
C30_Witness ==
  /\ response.op = "fetch"
  /\ response.status = 200
  /\ response.contentType = Mime("audio", "wav")
  /\ \E att \in StoredAttachments :
       /\ att.mimetype = Mime("audio", "wav")
       /\ response.url.filename = fileNameOf(att.filename.name)

\* --------------------- GET /api/messages/:messageId/attachments/download
\* file.filename.split('/'): the segments of an attachment's relative path
split(filename) == <<filename.dir, filename.subdir, filename.name>>

\* an entry named by the whole relative path
archivePath_whole(parts) == parts

\* parts.length >= 2 ? parts.slice(1).join('/') : path.basename(file.filename),
\* as the sequence of the segments joined
archivePath(parts) ==
  IF Len(parts) >= 2 THEN SubSeq(parts, 2, Len(parts)) ELSE <<parts[Len(parts)]>>

\* messages.find(msg => msg.id === messageId), as a sequence of at most one
findMessage(messages, id) ==
  LET hits == {i \in 1..Len(messages) : messages[i].id = id}
  IN IF hits = {} THEN <<>>
     ELSE <<messages[CHOOSE i \in hits : \A j \in hits : i <= j]>>

\* a handler that takes a message without files for one with attachments
noAttachments_never(message) == FALSE

\* !message.files?.length
noAttachments(message) == Len(message.files) = 0

\* The handler up to its first await: the id test (a string that holds "/",
\* "\" or ".." has a character outside [a-f0-9\-], so the three includes()
\* tests reject nothing the pattern accepts), the lookup of the message and
\* the test for attachments.
startDownload(file, id) ==
  LET found == findMessage(readMessages(file), id)
  IN IF ~ValidMessageId(id)
     THEN [NoDownload EXCEPT !.pc = "rejected", !.id = id, !.status = 400,
                             !.body = "json"]
     ELSE IF found = <<>>
     THEN [NoDownload EXCEPT !.pc = "rejected", !.id = id, !.status = 404,
                             !.body = "json", !.passed = <<"id">>]
     ELSE IF noAttachments(found[1])
     THEN [NoDownload EXCEPT !.pc = "rejected", !.id = id, !.status = 404,
                             !.body = "json", !.passed = <<"id", "message">>]
     ELSE [NoDownload EXCEPT !.pc = "access", !.id = id, !.files = found[1].files,
                             !.k = 1,
                             !.passed = <<"id", "message", "attachments">>]

\* fs.promises.access(path.join(UPLOADS_DIR, file.filename)) when it is carried out
accessAttachment(stored, file) == \E f \in stored : f.path = file.filename

\* The handler resumed after the await of its k-th access: 404 when the file
\* was not there, the next access when there is another file, and otherwise
\* the rest of the handler: status 200, the archive piped into the response,
\* every file handed to archive.file, archive.finalize() called.
resumeDownload(d) ==
  IF ~d.found
  THEN [d EXCEPT !.pc = "rejected", !.status = 404, !.body = "json"]
  ELSE IF d.k < Len(d.files)
  THEN [d EXCEPT !.pc = "access", !.k = d.k + 1, !.passed = Append(d.passed, "file")]
  ELSE [d EXCEPT !.pc = "streaming", !.passed = Append(d.passed, "file"),
                 !.status = 200, !.body = "zip",
                 !.queue = [i \in 1..Len(d.files) |->
                              archivePath(split(d.files[i].filename))],
                 !.j = 1]

\* What the archiver can meet in an entry: it writes the entry ("ok"); the
\* file is not there and it skips the entry with a warning ("warning") or
\* reports an error ("enoent"); the file is there but cannot be opened
\* ("eopen") or fails while its bytes are going out ("eread").
ArchiverOutcomes(present) ==
  IF present THEN {"ok", "eopen", "eread"} ELSE {"warning", "enoent"}

\* archive.on('error', ...): logs; status 500 and a text body only when no
\* header has gone out, otherwise the response is left as it is
archiveOnError(d) ==
  IF ~d.headersSent
  THEN [d EXCEPT !.status = 500, !.body = "text", !.headersSent = TRUE,
                 !.pc = "ended", !.ended = "end"]
  ELSE d

\* the archiver at its j-th entry with outcome o; after an error it goes on
\* with the next entry or stays where it is (goesOn)
archiveEntry(d, o, goesOn) ==
  CASE o = "ok" ->
         [d EXCEPT !.headersSent = TRUE, !.written = Append(d.written, d.queue[d.j]),
                   !.j = d.j + 1]
    [] o = "warning" ->
         [d EXCEPT !.faults = d.faults \cup {o}, !.j = d.j + 1]
    [] OTHER ->
         LET sent == [d EXCEPT !.headersSent = d.headersSent \/ o = "eread",
                               !.faults = d.faults \cup {o}
                                            \cup (IF d.headersSent \/ o = "eread"
                                                  THEN {"late"} ELSE {})]
             handled == archiveOnError(sent)
         IN IF handled.pc = "ended" THEN handled
            ELSE IF goesOn THEN [handled EXCEPT !.j = d.j + 1]
            ELSE [handled EXCEPT !.pc = "stalled"]

\* the handler is entered and runs to its first await or to its answer
Download(id) ==
  /\ download.pc = "idle"
  /\ download' = startDownload(messagesFile, id)
  /\ UNCHANGED <<messagesFile, uploadDirs, storedFiles, uuidCount, response, inflight>>

\* the access the handler awaits is carried out
DownloadAccess ==
  /\ download.pc = "access"
  /\ download' = [download EXCEPT
                    !.pc = "checked",
                    !.found = accessAttachment(storedFiles, download.files[download.k])]
  /\ UNCHANGED <<messagesFile, uploadDirs, storedFiles, uuidCount, response, inflight>>

\* the handler is resumed with the outcome of the access
DownloadResume ==
  /\ download.pc = "checked"
  /\ download' = resumeDownload(download)
  /\ UNCHANGED <<messagesFile, uploadDirs, storedFiles, uuidCount, response, inflight>>

\* the archiver takes the next entry of its queue
ArchiveEntry(o, goesOn) ==
  /\ download.pc = "streaming"
  /\ download.j <= Len(download.queue)
  /\ o \in ArchiverOutcomes(accessAttachment(storedFiles, download.files[download.j]))
  /\ download' = archiveEntry(download, o, goesOn)
  /\ UNCHANGED <<messagesFile, uploadDirs, storedFiles, uuidCount, response, inflight>>

\* the queue is empty: the archiver writes the central directory and ends
\* the stream, which ends the response it is piped into
ArchiveFinalize ==
  /\ download.pc = "streaming"
  /\ download.j > Len(download.queue)
  /\ download' = [download EXCEPT !.pc = "ended", !.headersSent = TRUE,
                                  !.ended = "finalized"]
  /\ UNCHANGED <<messagesFile, uploadDirs, storedFiles, uuidCount, response, inflight>>

DownloadIds == {Uuid(1), Uuid(2), TraversalId, UpperId}

DownloadStep == \E id \in DownloadIds : Download(id)

ArchiveEntryStep ==
  \E o \in {"ok", "warning", "enoent", "eopen", "eread"}, goesOn \in BOOLEAN :
     /\ (o \in {"ok", "warning"} => goesOn)
     /\ ArchiveEntry(o, goesOn)

NextDownload ==
  \/ DownloadStep
  \/ DownloadAccess
  \/ DownloadResume
  \/ ArchiveEntryStep
  \/ ArchiveFinalize
  \/ DeleteStep
  \/ ClearStep

SpecDownload == InitServe /\ [][NextDownload]_vars

\* C22: a download of a message whose files all exist (the archiver met no
\* missing or unreadable file) ends with an archive that holds exactly one
\* entry per attachment, in order, each named {subdir}/{filename} without the
\* leading message id: the attachment's path is the message id followed by
\* the entry name, so that no entry name holds the message id.
C22_OneEntryPerAttachment ==
  (download.ended = "finalized" /\ download.faults = {})
    => /\ download.status = 200
       /\ Len(download.written) = Len(download.files)
       /\ \A i \in 1..Len(download.files) :
            /\ download.files[i].filename.dir = download.id
            /\ download.written[i] = <<download.files[i].filename.subdir,
                                       download.files[i].filename.name>>
            /\ Len(download.written[i]) = 2
            /\ <<download.id>> \o download.written[i]
                 = split(download.files[i].filename)

\* a message with two attachments was downloaded: two entries, the first
\* under its subdirectory
C22_Witness ==
  /\ download.ended = "finalized"
  /\ download.faults = {}
  /\ Len(download.files) = 2
  /\ Len(download.written) = 2
  /\ download.written[1][1] = download.files[1].filename.subdir

\* the pre-checks of a download of n files, in the order the handler makes them
AllChecks(n) == <<"id", "message", "attachments">> \o [i \in 1..n |-> "file"]

\* C23: a download commits status 200 and starts streaming only after every
\* pre-check has passed, in order: well-formed id, message found, at least
\* one attachment, every attachment file present.  When one of them fails the
\* answer is 400 or 404 and nothing of the archive is written.
C23_ChecksBeforeCommit ==
  [][/\ (download'.status = 200 /\ download.status # 200)
          => /\ download.pc = "checked"
             /\ download.found
             /\ download.k = Len(download.files)
             /\ ValidMessageId(download.id)
             /\ Len(download.files) >= 1
             /\ download'.passed = AllChecks(Len(download.files))
             /\ ~download.headersSent
             /\ download'.written = <<>>
     /\ (download'.headersSent \/ download'.written # <<>> \/ download'.queue # <<>>)
          => download'.passed = AllChecks(Len(download'.files))
     /\ (download.pc = "idle" /\ download'.pc # "idle")
          => /\ ~ValidMessageId(download'.id)
                  => (download'.pc = "rejected" /\ download'.status = 400)
             /\ (ValidMessageId(download'.id) /\ download'.id \notin StoredIds)
                  => (download'.pc = "rejected" /\ download'.status = 404)
             /\ (\E i \in 1..Len(Stored) :
                    Stored[i].id = download'.id /\ Len(Stored[i].files) = 0)
                  => (download'.pc = "rejected" /\ download'.status = 404)
     /\ (download.pc = "checked" /\ ~download.found /\ download' # download)
          => (download'.pc = "rejected" /\ download'.status = 404)
     /\ download'.pc = "rejected"
          => /\ download'.status \in {400, 404}
             /\ download'.body = "json"
             /\ download'.written = <<>>
             /\ ~download'.headersSent]_vars

\* the handler has committed 200 for a message with two attachments after
\* five checks, and nothing has been written yet
C23_Witness ==
  /\ download.pc = "streaming"
  /\ download.status = 200
  /\ Len(download.files) = 2
  /\ Len(download.passed) = 5
  /\ download.written = <<>>

\* C24: when the archiver has reported an error after bytes of the response
\* had gone out, the handler has ended the output (an abort) and has written
\* no JSON or text body, so that the response does not stay open.
C24_Original ==
  "late" \in download.faults
    => /\ download.ended # "no"
       /\ download.body = "zip"

\* ------------------------------ a download with deletes at its awaits
\* Another request is handled while the download handler is suspended in
\* `await fs.promises.access(...)`, before or after the access is carried out
DeleteAtAwait == download.pc \in {"access", "checked"} /\ DeleteStep

ClearAtAwait == download.pc \in {"access", "checked"} /\ ClearStep

NextRace ==
  \/ DownloadStep
  \/ DownloadAccess
  \/ DownloadResume
  \/ ArchiveEntryStep
  \/ ArchiveFinalize
  \/ DeleteAtAwait
  \/ ClearAtAwait

SpecRace == InitServe /\ [][NextRace]_vars

\* C28: a download that passed its pre-checks and committed 200 ends with an
\* archive that holds every attachment, whatever delete or clear ran while
\* the handler was suspended (the archiver met no unreadable file).
C28_Original ==
  (/\ download.passed = AllChecks(Len(download.files))
   /\ download.passed # <<>>
   /\ download.pc = "ended"
   /\ download.faults \cap {"eopen", "eread"} = {})
    => /\ download.ended = "finalized"
       /\ download.status = 200
       /\ Len(download.written) = Len(download.files)

\* C27: readMessages yields the empty sequence for a missing document and
\* for one that does not parse, so a submit whose addMessage(m) finds the
\* document corrupt and whose write succeeds leaves a document holding
\* exactly [m] in place of the corrupt content.
C27_CorruptAsEmpty ==
  [][/\ ~messagesFile.ok => readMessages(messagesFile) = <<>>
     /\ (/\ response'.op = "submit"
         /\ response'.result = "ok"
         /\ response'.document \in {"missing", "corrupt"})
          => /\ ~messagesFile.ok
             /\ response'.document = documentState(messagesFile)
             /\ messagesFile' = Document(response'.data)
             /\ Len(response'.data) = 1
             /\ readMessages(messagesFile') = response'.data]_vars

\* a message was submitted when earlier ones had been lost to a torn write:
\* it is the only one stored
C27_Witness ==
  /\ response.op = "submit"
  /\ response.result = "ok"
  /\ response.document = "corrupt"
  /\ uuidCount >= 2
  /\ Len(Stored) = 1
  /\ Stored[1].id = response.id

\* C29: after a submit that the middleware rejected because a file failed
\* content validation (its temporary file could be removed), no temporary
\* file of the request is left: not the rejected one, none validated before
\* it, none that was not yet validated.
C29_Original ==
  (/\ response.op = "submit"
   /\ ~response.routed
   /\ ~response.unlinkFailed
   /\ Len(response.examined) > 0
   /\ ~response.examined[Len(response.examined)].result.isValid)
    => response.tmpLeft = {}

\* ------------------------------------------- writers of messages.json
\* Two callers of addMessage that are not scheduled by the same event loop
\* (two server processes on one data directory): the statements of
\* addMessage of one can fall between those of the other.

\* a writer that reads the document again when it writes
pushOnRead_reread(read, file, newMessage) == Append(readMessages(file), newMessage)

\* messages.push(newMessage) on the array that readMessages returned
pushOnRead(read, file, newMessage) == Append(read, newMessage)

\* const messages = readMessages()
AddRead(c, text, now) ==
  /\ inflight[c].pc # "read"
  /\ uuidCount < MaxIds
  /\ inflight' = [inflight EXCEPT ![c] =
                    [NoCall EXCEPT !.pc = "read", !.text = text,
                                   !.message = <<[id |-> Uuid(uuidCount + 1),
                                                  message |-> text, files |-> <<>>,
                                                  timestamp |-> now]>>,
                                   !.read = readMessages(messagesFile)]]
  /\ uuidCount' = uuidCount + 1
  /\ UNCHANGED <<messagesFile, uploadDirs, storedFiles, response, download>>

\* messages.push(newMessage); writeMessages(messages)
AddWrite(c, w) ==
  /\ inflight[c].pc = "read"
  /\ \E written \in {writeMessages(messagesFile,
                                   pushOnRead(inflight[c].read, messagesFile,
                                              inflight[c].message[1]), w)} :
        /\ messagesFile' = written.file
        /\ inflight' = [inflight EXCEPT
                          ![c].pc = IF written.threw THEN "failed" ELSE "done"]
  /\ UNCHANGED <<uploadDirs, storedFiles, uuidCount, response, download>>

AddReadStep == \E c \in Calls, now \in ClockTimes : AddRead(c, "hi", now)

AddWriteStep == \E c \in Calls, w \in WriteOutcomes : AddWrite(c, w)

NextWriters == AddReadStep \/ AddWriteStep

SpecWriters == Init /\ [][NextWriters]_vars

\* C25: nothing protects the store against concurrent writers: when two add
\* calls have both read the document before either wrote it, the write of
\* the second replaces the document by what it read plus its own message, so
\* that the first writer's message is gone and only one of the two is stored.
C25_LostUpdate ==
  [][\A c, d \in Calls :
       (/\ c # d
        /\ inflight[c].pc = "read"
        /\ inflight'[c].pc = "done"
        /\ inflight[d].pc = "done"
        /\ inflight[d].read = inflight[c].read)
         => /\ StoredAfter = Append(inflight[c].read, inflight[c].message[1])
            /\ Len(StoredAfter) = Len(inflight[c].read) + 1
            /\ \A i \in 1..Len(StoredAfter) : StoredAfter[i] # inflight[d].message[1]]_vars

\* both calls read the empty store, both wrote: one message is stored
C25_Witness ==
  \E c, d \in Calls :
     /\ c # d
     /\ inflight[c].pc = "done"
     /\ inflight[d].pc = "done"
     /\ inflight[c].read = <<>>
     /\ inflight[d].read = <<>>
     /\ Stored = inflight[c].message
     /\ inflight[d].message # inflight[c].message

\* ---------------------------------------- requests in one event loop
\* A submit whose body has been parsed waits in the middleware chain (the
\* awaits of fileValidationMiddleware) while other requests are handled
PostArrive(c, text, files) ==
  /\ inflight[c].pc = "idle"
  /\ inflight' = [inflight EXCEPT ![c] =
                    [NoCall EXCEPT !.pc = "awaiting", !.text = text, !.files = files]]
  /\ UNCHANGED <<messagesFile, uploadDirs, storedFiles, uuidCount, response, download>>

\* the route handler of a waiting submit: it has no await, so its
\* organizeUploadedFiles and addMessage run in one piece
PostHandle(c, now, org, w) ==
  /\ inflight[c].pc = "awaiting"
  /\ Len(readMessages(messagesFile)) < MaxMsgs
  /\ uuidCount < MaxIds
  /\ \E done \in {postHandler(inflight[c].text, inflight[c].files, now, org, w)} :
        /\ messagesFile' = done.file
        /\ uploadDirs' = done.dirs
        /\ storedFiles' = done.stored
        /\ uuidCount' = done.count
        /\ response' = done.response
  /\ inflight' = [inflight EXCEPT ![c] = NoCall]
  /\ UNCHANGED download

PostArriveStep ==
  \E c \in Calls, text \in Texts, files \in Uploads : PostArrive(c, text, files)

PostHandleStep ==
  \E c \in Calls, now \in ClockTimes :
     PostHandle(c, now, [kind |-> "ok", at |-> 0], "ok")

NextLoop == PostArriveStep \/ PostHandleStep \/ DeleteNoFail \/ ClearNoFail

SpecLoop == Init /\ [][NextLoop]_vars

\* the array without the message of the given id
Without(messages, id) == SelectSeq(messages, LAMBDA m : m.id # id)

\* C26: in one process every add, delete and clear does its read-modify-write
\* in one piece, whatever requests are waiting at an await: each step leaves
\* the document as one whole operation on the document before it does, so
\* any interleaving equals a sequential order, and every successful submit
\* adds exactly its message to the messages that were there.
C26_Serializable ==
  [][/\ \/ StoredAfter = Stored
        \/ /\ uuidCount' = uuidCount + 1
           /\ response'.op = "submit"
           /\ response'.result = "ok"
           /\ StoredAfter = Append(Stored, response'.data[1])
        \/ /\ response'.op = "delete"
           /\ response'.id \in StoredIds
           /\ StoredAfter = Without(Stored, response'.id)
        \/ /\ response'.op = "clear"
           /\ StoredAfter = <<>>
     /\ (uuidCount' = uuidCount + 1 /\ response'.result = "ok")
          => /\ StoredAfter = Append(Stored, response'.data[1])
             /\ Len(StoredAfter) = Len(Stored) + 1
             /\ \E c \in Calls : inflight[c].pc = "awaiting" /\ inflight'[c].pc = "idle"]_vars

\* two submits were handled while a third request was waiting: both
\* messages are stored, in the order in which their handlers ran
C26_Witness ==
  /\ response.op = "submit"
  /\ response.result = "ok"
  /\ Len(Stored) = 2
  /\ Stored[1].id = Uuid(1)
  /\ Stored[2].id = Uuid(2)
  /\ \E c \in Calls : inflight[c].pc = "awaiting"

====
